---- MODULE Spec2Model ----
(***************************************************************************)
(* A model of scripts/ud_opcode.py (udis86): the opcode-extension index    *)
(* resolvers, the decode table (UdOpcodeTable), the trie primitives        *)
(* mkTrie / walk / map, and the collection built by                        *)
(* UdOpcodeTables.__init__ (ingestion, patchAvx2byte, mergeSSENONE,        *)
(* printStats).                                                            *)
(*                                                                         *)
(* Python strings that the code parses (opcode tokens, extension values)   *)
(* are sequences of one-character strings, so that startswith, split,      *)
(* slicing, concatenation and int() are computed as the code computes      *)
(* them.  Python objects (tables, instruction definitions) live in heaps   *)
(* indexed by their identity.  A Python exception is a value: every        *)
(* operation that can raise returns a record whose field exc is "" when    *)
(* the call returned and the exception's class name when it raised.        *)
(***************************************************************************)
EXTENDS Integers, Sequences, FiniteSets, TLC

VARIABLES heap,        \* table objects by identity: [typ, entries]
          tables,      \* self._tables: list of table identities
          defs,        \* UdInsnDef objects by identity
          insns,       \* self._insns: list of UdInsnDef identities
          mnemonics,   \* self._mnemonics: mnemonic -> list of UdInsnDef identities
          pc,          \* position inside UdOpcodeTables.__init__ / the driver
          exc,         \* the exception that ended the last call ("" if none)
          cur,         \* the last call made and what it was given
          nsteps,      \* number of calls made so far
          ratio        \* the packing ratio logged by printStats (-1 before)

vars == <<heap, tables, defs, insns, mnemonics, pc, exc, cur, nsteps, ratio>>

(***************************************************************************)
(* Strings                                                                 *)
(***************************************************************************)
StartsWith(s, p) == Len(s) >= Len(p) /\ SubSeq(s, 1, Len(p)) = p

SetMin(S) == CHOOSE x \in S : \A y \in S : x <= y

\* str.split(sep) for a one-character separator
RECURSIVE Split(_, _)
Split(s, sep) ==
    LET at == {i \in 1..Len(s) : s[i] = sep}
    IN  IF at = {} THEN <<s>>
        ELSE LET i == SetMin(at)
             IN  <<SubSeq(s, 1, i - 1)>> \o Split(SubSeq(s, i + 1, Len(s)), sep)

Range(f) == {f[i] : i \in DOMAIN f}

\* names of the table kinds / opcode extensions
OPCTBL == <<"o","p","c","t","b","l">>
SSE    == <<"/","s","s","e">>
REG    == <<"/","r","e","g">>
RM     == <<"/","r","m">>
MOD    == <<"/","m","o","d">>
MODE   == <<"/","m">>
X87    == <<"/","x","8","7">>
ASIZE  == <<"/","a">>
OSIZE  == <<"/","o">>
DNOW   == <<"/","3","d","n","o","w">>
VENDOR == <<"/","v","e","n","d","o","r">>
VEX    == <<"/","v","e","x">>
VEXW   == <<"/","v","e","x","w">>

NONE   == <<"n","o","n","e">>

\* ext + '=' + value
ExtTok(ext, v) == ext \o <<"=">> \o v

(***************************************************************************)
(* Results of calls that may raise                                         *)
(***************************************************************************)
Ret(v)   == [exc |-> "", val |-> v]
Raise(e) == [exc |-> e, val |-> 0]

(***************************************************************************)
(* int(v, base): an optional sign followed by at least one digit of the    *)
(* base (either case); anything else raises ValueError.                    *)
(***************************************************************************)
DigitVal == [c \in {"0","1","2","3","4","5","6","7","8","9",
                    "a","b","c","d","e","f","A","B","C","D","E","F"} |->
             CASE c = "0" -> 0  [] c = "1" -> 1  [] c = "2" -> 2  [] c = "3" -> 3
               [] c = "4" -> 4  [] c = "5" -> 5  [] c = "6" -> 6  [] c = "7" -> 7
               [] c = "8" -> 8  [] c = "9" -> 9
               [] c \in {"a","A"} -> 10 [] c \in {"b","B"} -> 11
               [] c \in {"c","C"} -> 12 [] c \in {"d","D"} -> 13
               [] c \in {"e","E"} -> 14 [] c \in {"f","F"} -> 15]

RECURSIVE Digits(_, _)
Digits(s, base) ==
    IF Len(s) = 0 THEN 0
    ELSE Digits(SubSeq(s, 1, Len(s) - 1), base) * base + DigitVal[s[Len(s)]]

int(v, base) ==
    LET signed == Len(v) > 0 /\ v[1] \in {"-", "+"}
        body   == IF signed THEN Tail(v) ELSE v
        wf     == /\ Len(body) > 0
                  /\ \A i \in 1..Len(body) :
                        body[i] \in DOMAIN DigitVal /\ DigitVal[body[i]] < base
    IN  IF ~wf THEN Raise("ValueError")
        ELSE Ret((IF signed /\ v[1] = "-" THEN -1 ELSE 1) * Digits(body, base))

(***************************************************************************)
(* UdOpcodeTable: resolvers                                                *)
(***************************************************************************)
\* vendor2idx counting the vendors from one
vendor2idxFromOne(v) ==
    IF v = <<"a","m","d">> THEN 1
    ELSE IF v = <<"i","n","t","e","l">> THEN 2
    ELSE 3

vendor2idx(v) ==
    IF v = <<"a","m","d">> THEN 0
    ELSE IF v = <<"i","n","t","e","l">> THEN 1
    ELSE 2

vexOpcExtMap ==
       (<<"n","o","n","e">> :> 0)
    @@ (<<"0","f">> :> 1)
    @@ (<<"0","f","3","8">> :> 2)
    @@ (<<"0","f","3","a">> :> 3)
    @@ (<<"6","6">> :> 4)
    @@ (<<"6","6","_","0","f">> :> 5)
    @@ (<<"6","6","_","0","f","3","8">> :> 6)
    @@ (<<"6","6","_","0","f","3","a">> :> 7)
    @@ (<<"f","3">> :> 8)
    @@ (<<"f","3","_","0","f">> :> 9)
    @@ (<<"f","3","_","0","f","3","8">> :> 10)
    @@ (<<"f","3","_","0","f","3","a">> :> 11)
    @@ (<<"f","2">> :> 12)
    @@ (<<"f","2","_","0","f">> :> 13)
    @@ (<<"f","2","_","0","f","3","8">> :> 14)
    @@ (<<"f","2","_","0","f","3","a">> :> 15)

\* vex2idx without the stripping of the prefix 'none_'
vex2idxNoAlias(v0) ==
    IF v0 \in DOMAIN vexOpcExtMap THEN Ret(vexOpcExtMap[v0]) ELSE Raise("KeyError")

vex2idx(v0) ==
    LET v == IF StartsWith(v0, <<"n","o","n","e","_">>)
             THEN SubSeq(v0, 6, Len(v0)) ELSE v0
    IN  IF v \in DOMAIN vexOpcExtMap THEN Ret(vexOpcExtMap[v]) ELSE Raise("KeyError")

OpcExtKinds == {RM, X87, DNOW, REG, MOD, OSIZE, ASIZE, MODE, SSE, VEX, VEXW, VENDOR}

OpcExtMap(typ, v) ==
    CASE typ \in {RM, X87, DNOW, REG} -> int(v, 16)
      [] typ = MOD    -> Ret(IF v = <<"!","1","1">> THEN 0 ELSE 1)
      [] typ \in {OSIZE, ASIZE} ->
            LET div32(n) == IF n.exc # "" THEN n ELSE Ret(n.val \div 32)
            IN  div32(int(v, 10))
      [] typ = MODE   -> Ret(IF v = <<"6","4">> THEN 1 ELSE 0)
      [] typ = SSE    ->
            IF v = NONE THEN Ret(0)
            ELSE LET half(n) == IF n.exc # "" THEN n
                                ELSE Ret(((n.val % 16) + 1) \div 2)
                 IN  half(int(v, 16))
      [] typ = VEX    -> vex2idx(v)
      [] typ = VEXW   -> Ret(IF v = <<"0">> THEN 0 ELSE 1)
      [] typ = VENDOR -> Ret(vendor2idx(v))

TableInfo ==
    [k \in {OPCTBL} \cup OpcExtKinds |->
        CASE k = OPCTBL -> 256 [] k = SSE  -> 4  [] k = REG   -> 8
          [] k = RM     -> 8   [] k = MOD  -> 2  [] k = MODE  -> 2
          [] k = X87    -> 64  [] k = ASIZE -> 3 [] k = OSIZE -> 3
          [] k = DNOW   -> 256 [] k = VENDOR -> 3 [] k = VEX  -> 16
          [] k = VEXW   -> 2]

getOpcodeTyp(opc) ==
    IF StartsWith(opc, <<"/">>) THEN Split(opc, "=")[1] ELSE OPCTBL

getOpcodeIdx(opc) ==
    IF StartsWith(opc, <<"/">>)
    THEN LET resolve(p) ==
                 IF Len(p) # 2 THEN Raise("ValueError")
                 ELSE IF p[1] \notin OpcExtKinds THEN Raise("KeyError")
                 ELSE OpcExtMap(p[1], p[2])
         IN  resolve(Split(opc, "="))
    ELSE int(opc, 16)

(***************************************************************************)
(* Object references.  An entry of a table, the argument obj of add / map  *)
(* / mkTrie and the result of lookup / walk is a reference to a table, a   *)
(* reference to an instruction definition, or Python's None.               *)
(***************************************************************************)
None      == [k |-> "None", ref |-> 0]
Tbl(i)    == [k |-> "tbl",  ref |-> i]
Insn(i)   == [k |-> "insn", ref |-> i]
IsTbl(e)  == e.k = "tbl"

\* The collection travels through the operations as one record
\* s = [heap, tables, defs, insns, mnemonics]; an operation returns the
\* exception it raised (or ""), the collection as it left it, and its value.
Out(e, s, v) == [exc |-> e, s |-> s, val |-> v]

\* dict.get(idx, None)
Get(entries, idx) == IF idx \in DOMAIN entries THEN entries[idx] ELSE None

\* dict[idx] = obj
Put(entries, idx, obj) ==
    [i \in (DOMAIN entries) \cup {idx} |-> IF i = idx THEN obj ELSE entries[i]]

\* UdOpcodeTable.size
size(s, t) == TableInfo[s.heap[t].typ]

\* UdOpcodeTable.numEntries
numEntries(s, t) == Cardinality(DOMAIN s.heap[t].entries)

\* add without the test of the token's kind against the table's
addAnyKind(s, t, opc, obj) ==
    LET store(idx) ==
            IF idx.exc # "" THEN Out(idx.exc, s, None)
            ELSE IF idx.val \in DOMAIN s.heap[t].entries
            THEN Out("NameError", s, None)
            ELSE Out("", [s EXCEPT !.heap[t].entries = Put(@, idx.val, obj)], None)
    IN  store(getOpcodeIdx(opc))

\* UdOpcodeTable.add.  The bare name CollisionError is not bound inside the
\* method, so the raise statement itself raises NameError.
add(s, t, opc, obj) ==
    LET store(typ, idx) ==
            IF idx.exc # "" THEN Out(idx.exc, s, None)
            ELSE IF s.heap[t].typ # typ \/ idx.val \in DOMAIN s.heap[t].entries
            THEN Out("NameError", s, None)
            ELSE Out("", [s EXCEPT !.heap[t].entries = Put(@, idx.val, obj)], None)
    IN  store(getOpcodeTyp(opc), getOpcodeIdx(opc))

\* UdOpcodeTable.lookup
lookup(s, t, opc) ==
    LET fetch(typ, idx) ==
            IF idx.exc # "" THEN Raise(idx.exc)
            ELSE IF s.heap[t].typ # typ THEN Raise("UdOpcodeTable.CollisionError")
            ELSE Ret(Get(s.heap[t].entries, idx.val))
    IN  fetch(getOpcodeTyp(opc), getOpcodeIdx(opc))

\* UdOpcodeTable.entryAt
entryAt(s, t, index) ==
    IF index < size(s, t) THEN Ret(Get(s.heap[t].entries, index))
    ELSE Raise("UdOpcodeTable.IndexError")

\* UdOpcodeTable.setEntryAt
setEntryAt(s, t, index, obj) ==
    IF index < size(s, t)
    THEN Out("", [s EXCEPT !.heap[t].entries = Put(@, index, obj)], None)
    ELSE Out("UdOpcodeTable.IndexError", s, None)

(***************************************************************************)
(* UdOpcodeTables: trie primitives                                         *)
(***************************************************************************)
\* UdOpcodeTables.newTable, for a typ that UdOpcodeTable.__init__ accepts
newTable(s, typ) ==
    [s EXCEPT !.heap   = Append(@, [typ |-> typ, entries |-> <<>>]),
              !.tables = Append(@, Len(s.heap) + 1)]

RECURSIVE mkTrieBare(_, _, _)
\* mkTrie that leaves the innermost table of the chain without its leaf
mkTrieBare(s, opcodes, obj) ==
    IF Len(opcodes) = 0 THEN Out("", s, obj)
    ELSE LET opc == opcodes[1]
             tbl == Len(s.heap) + 1
             link(sub) == IF sub.exc # "" THEN sub
                          ELSE IF Len(opcodes) = 1 THEN Out("", sub.s, Tbl(tbl))
                          ELSE [add(sub.s, tbl, opc, sub.val) EXCEPT !.val = Tbl(tbl)]
             make(typ) == IF typ \notin DOMAIN TableInfo
                          THEN Out("AssertionError", s, None)
                          ELSE link(mkTrieBare(newTable(s, typ), Tail(opcodes), obj))
         IN  make(getOpcodeTyp(opc))

\* UdOpcodeTables.mkTrie.  The tables of the chain are created on the way
\* down (outermost first) and linked by add on the way back.
RECURSIVE mkTrie(_, _, _)
mkTrie(s, opcodes, obj) ==
    IF Len(opcodes) = 0 THEN Out("", s, obj)
    ELSE LET opc == opcodes[1]
             tbl == Len(s.heap) + 1
             link(sub) == IF sub.exc # "" THEN sub
                          ELSE [add(sub.s, tbl, opc, sub.val) EXCEPT !.val = Tbl(tbl)]
             make(typ) == IF typ \notin DOMAIN TableInfo
                          THEN Out("AssertionError", s, None)
                          ELSE link(mkTrie(newTable(s, typ), Tail(opcodes), obj))
         IN  make(getOpcodeTyp(opc))

\* UdOpcodeTables.walk
RECURSIVE walk(_, _, _)
walk(s, tbl, opcodes) ==
    IF Len(opcodes) = 0 THEN Raise("IndexError")
    ELSE LET step(e) ==
                 IF e.exc # "" THEN e
                 ELSE IF e.val = None THEN Ret(None)
                 ELSE IF IsTbl(e.val) /\ Len(Tail(opcodes)) # 0
                 THEN walk(s, e.val.ref, Tail(opcodes))
                 ELSE e
         IN  step(lookup(s, tbl, opcodes[1]))

\* map that lets a second leaf take an occupied terminal slot
RECURSIVE mapOver(_, _, _, _)
mapOver(s, tbl, opcodes, obj) ==
    IF Len(opcodes) = 0 THEN Out("IndexError", s, None)
    ELSE IF ~IsTbl(tbl) THEN Out("AttributeError", s, None)
    ELSE LET opc == opcodes[1]
             attach(sub) == IF sub.exc # "" THEN sub
                            ELSE add(sub.s, tbl.ref, opc, sub.val)
             put(i) == Out("", [s EXCEPT !.heap[tbl.ref].entries = Put(@, i.val, obj)],
                           None)
             step(e) ==
                 IF e.exc # "" THEN Out(e.exc, s, None)
                 ELSE IF e.val = None THEN attach(mkTrie(s, Tail(opcodes), obj))
                 ELSE IF Len(Tail(opcodes)) = 0 THEN put(getOpcodeIdx(opc))
                 ELSE mapOver(s, e.val, Tail(opcodes), obj)
         IN  step(lookup(s, tbl.ref, opc))

\* map that keeps the leaf already in the terminal slot and returns
RECURSIVE mapKeep(_, _, _, _)
mapKeep(s, tbl, opcodes, obj) ==
    IF Len(opcodes) = 0 THEN Out("IndexError", s, None)
    ELSE IF ~IsTbl(tbl) THEN Out("AttributeError", s, None)
    ELSE LET opc == opcodes[1]
             attach(sub) == IF sub.exc # "" THEN sub
                            ELSE add(sub.s, tbl.ref, opc, sub.val)
             step(e) ==
                 IF e.exc # "" THEN Out(e.exc, s, None)
                 ELSE IF e.val = None THEN attach(mkTrie(s, Tail(opcodes), obj))
                 ELSE IF Len(Tail(opcodes)) = 0 THEN Out("", s, None)
                 ELSE mapKeep(s, e.val, Tail(opcodes), obj)
         IN  step(lookup(s, tbl.ref, opc))

\* map that attaches a fresh chain also where a table already sits
RECURSIVE mapFresh(_, _, _, _)
mapFresh(s, tbl, opcodes, obj) ==
    IF Len(opcodes) = 0 THEN Out("IndexError", s, None)
    ELSE IF ~IsTbl(tbl) THEN Out("AttributeError", s, None)
    ELSE LET opc == opcodes[1]
             put(sub, i) ==
                 IF sub.exc # "" THEN sub
                 ELSE Out("", [sub.s EXCEPT !.heap[tbl.ref].entries = Put(@, i.val, sub.val)],
                          None)
             step(e) ==
                 IF e.exc # "" THEN Out(e.exc, s, None)
                 ELSE IF e.val # None /\ Len(Tail(opcodes)) = 0
                 THEN Out("UdOpcodeTables.CollisionError", s, None)
                 ELSE put(mkTrie(s, Tail(opcodes), obj), getOpcodeIdx(opc))
         IN  step(lookup(s, tbl.ref, opc))

\* UdOpcodeTables.map.  tbl is whatever the caller or the previous level
\* handed down: calling lookup on an instruction definition raises
\* AttributeError.
RECURSIVE map(_, _, _, _)
map(s, tbl, opcodes, obj) ==
    IF Len(opcodes) = 0 THEN Out("IndexError", s, None)
    ELSE IF ~IsTbl(tbl) THEN Out("AttributeError", s, None)
    ELSE LET opc == opcodes[1]
             attach(sub) == IF sub.exc # "" THEN sub
                            ELSE add(sub.s, tbl.ref, opc, sub.val)
             step(e) ==
                 IF e.exc # "" THEN Out(e.exc, s, None)
                 ELSE IF e.val = None THEN attach(mkTrie(s, Tail(opcodes), obj))
                 ELSE IF Len(Tail(opcodes)) = 0
                 THEN Out("UdOpcodeTables.CollisionError", s, None)
                 ELSE map(s, e.val, Tail(opcodes), obj)
         IN  step(lookup(s, tbl.ref, opc))

root == Tbl(1)

(***************************************************************************)
(* UdInsnDef.__init__: the definition's fields, _opcexts read back from    *)
(* its opcode tokens.                                                      *)
(***************************************************************************)
\* dict[k] = v on a dict kept as a function
Set(d, k, v) == [e \in (DOMAIN d) \cup {k} |-> IF e = k THEN v ELSE d[e]]

\* the loop "e, v = opc.split('='); opcexts[e] = v" over the tokens that
\* start with '/'
RECURSIVE CollectExts(_, _)
CollectExts(opcodes, acc) ==
    IF Len(opcodes) = 0 THEN Ret(acc)
    ELSE IF ~StartsWith(opcodes[1], <<"/">>) THEN CollectExts(Tail(opcodes), acc)
    ELSE LET unpack(p) == IF Len(p) # 2 THEN Raise("ValueError")
                          ELSE CollectExts(Tail(opcodes), Set(acc, p[1], p[2]))
         IN  unpack(Split(opcodes[1], "="))

UdInsnDef(mnemonic, prefixes, opcodes, operands, cpuid) ==
    LET build(x) ==
            IF x.exc # "" THEN x
            ELSE Ret([mnemonic |-> mnemonic, prefixes |-> prefixes,
                      opcodes  |-> opcodes,  operands |-> operands,
                      cpuid    |-> cpuid,    opcexts  |-> x.val])
    IN  build(CollectExts(opcodes, <<>>))

(***************************************************************************)
(* UdOpcodeTables.addInsn                                                  *)
(***************************************************************************)
\* the order with /o ahead of /sse
ExtOrderOsizeFirst == <<MOD, X87, REG, RM, OSIZE, SSE, ASIZE, MODE, VEXW, DNOW, VENDOR>>

ExtOrder == <<MOD, X87, REG, RM, SSE, OSIZE, ASIZE, MODE, VEXW, DNOW, VENDOR>>

C4 == <<"c","4">>
C5 == <<"c","5">>

\* the loop "for ext in (...): if ext in opcexts: opcodes.append(...)"
RECURSIVE AppendExts(_, _, _)
AppendExts(opcodes, opcexts, order) ==
    IF Len(order) = 0 THEN opcodes
    ELSE AppendExts(IF order[1] \in DOMAIN opcexts
                    THEN Append(opcodes, ExtTok(order[1], opcexts[order[1]]))
                    ELSE opcodes,
                    opcexts, Tail(order))

\* list.insert(1, x)
Insert1(l, x) == IF Len(l) = 0 THEN <<x>> ELSE <<l[1], x>> \o Tail(l)

\* the canonical opcode list of addInsn
Canonical(opcodes0, opcexts) ==
    AppendExts(IF VEX \in DOMAIN opcexts
               THEN Insert1(opcodes0, ExtTok(VEX, opcexts[VEX]))
               ELSE opcodes0,
               opcexts, ExtOrder)

\* self._mnemonics after the definition id was filed under its mnemonic
Filed(mn, mnemonic, id) ==
    IF mnemonic \notin DOMAIN mn THEN Set(mn, mnemonic, <<id>>)
    ELSE [mn EXCEPT ![mnemonic] = Append(@, id)]

\* addInsn that files the definition before it maps it
addInsnFiledFirst(s, mnemonic, prefixes, opcodes0, opcexts, operands, cpuid) ==
    IF VEX \in DOMAIN opcexts /\ Len(opcodes0) = 0 THEN Out("IndexError", s, None)
    ELSE IF VEX \in DOMAIN opcexts /\ opcodes0[1] \notin {C4, C5}
    THEN Out("AssertionError", s, None)
    ELSE LET id == Len(s.defs) + 1
             insert(opcodes, insn) ==
                 IF insn.exc # "" THEN Out(insn.exc, s, None)
                 ELSE map([s EXCEPT !.defs = Append(@, insn.val),
                                    !.insns = Append(@, id),
                                    !.mnemonics = Filed(@, mnemonic, id)],
                          root, opcodes, Insn(id))
             create(opcodes) ==
                 insert(opcodes, UdInsnDef(mnemonic, prefixes, opcodes, operands, cpuid))
         IN  create(Canonical(opcodes0, opcexts))

addInsn(s, mnemonic, prefixes, opcodes0, opcexts, operands, cpuid) ==
    IF VEX \in DOMAIN opcexts /\ Len(opcodes0) = 0 THEN Out("IndexError", s, None)
    ELSE IF VEX \in DOMAIN opcexts /\ opcodes0[1] \notin {C4, C5}
    THEN Out("AssertionError", s, None)
    ELSE LET id == Len(s.defs) + 1
             record(m) ==
                 IF m.exc # "" THEN m
                 ELSE Out("", [m.s EXCEPT !.insns = Append(@, id),
                                          !.mnemonics = Filed(@, mnemonic, id)],
                          None)
             insert(opcodes, insn) ==
                 IF insn.exc # "" THEN Out(insn.exc, s, None)
                 ELSE record(map([s EXCEPT !.defs = Append(@, insn.val)],
                                 root, opcodes, Insn(id)))
             create(opcodes) ==
                 insert(opcodes, UdInsnDef(mnemonic, prefixes, opcodes, operands, cpuid))
         IN  create(Canonical(opcodes0, opcexts))

(***************************************************************************)
(* UdOpcodeTables.addInsnDef                                               *)
(***************************************************************************)
IsPlain(opc) == ~StartsWith(opc, <<"/">>)

\* o + 'x' for the operands V, W and H
VexOperand(o) == IF o \in {"V", "W", "H"} THEN o \o "x" ELSE o

NotHL(o) == o \notin {"H", "L"}

\* Extended without the artificial /sse=none
ExtendedNoSynth(opcodes, exts, vendor) ==
    IF Len(vendor) # 0 THEN Set(exts, VENDOR, vendor[1]) ELSE exts

\* opcexts after "artificially add a /sse=none for 2 byte opcodes" and
\* "treat vendor as an opcode extension"
Extended(opcodes, exts, vendor) ==
    LET synth == /\ opcodes[1] = <<"0","f">>
                 /\ opcodes[2] # <<"0","f">>
                 /\ SSE \notin DOMAIN exts
        ext1  == IF synth THEN Set(exts, SSE, NONE) ELSE exts
    IN  IF Len(vendor) # 0 THEN Set(ext1, VENDOR, vendor[1]) ELSE ext1

\* the second definition of an AVX record: the VEX form
addVexInsn(s, insnDef, opcodes, opcexts) ==
    LET esc   == opcodes[2] \in {<<"3","8">>, <<"3","a">>}
        vex   == opcexts[SSE] \o <<"_">> \o <<"0","f">>
                 \o (IF esc THEN opcodes[2] ELSE <<>>)
        vexopcs == <<C4>> \o (IF esc THEN SubSeq(opcodes, 3, Len(opcodes))
                              ELSE Tail(opcodes))
        vexopcexts == Set([e \in (DOMAIN opcexts) \ {SSE} |-> opcexts[e]], VEX, vex)
        vexoperands == [i \in 1..Len(insnDef.operands) |->
                           VexOperand(insnDef.operands[i])]
    IN  addInsn(s, "v" \o insnDef.mnemonic, insnDef.prefixes,
                vexopcs, vexopcexts, vexoperands, insnDef.cpuid)

addInsnDef(s, insnDef) ==
    LET opcodes == SelectSeq(insnDef.opcodes, IsPlain)
        vexform(opcexts, a1) ==
            IF a1.exc # "" THEN a1
            ELSE IF Len(opcodes) < 2 THEN Out("IndexError", a1.s, None)
            ELSE addVexInsn(a1.s, insnDef, opcodes, opcexts)
        emit(opcexts) ==
            IF "avx" \in Range(insnDef.cpuid) /\ SSE \in DOMAIN opcexts
            THEN vexform(opcexts,
                         addInsn(s, insnDef.mnemonic, insnDef.prefixes, opcodes,
                                 [e \in (DOMAIN opcexts) \ {VEXW} |-> opcexts[e]],
                                 SelectSeq(insnDef.operands, NotHL), insnDef.cpuid))
            ELSE addInsn(s, insnDef.mnemonic, insnDef.prefixes, opcodes,
                         opcexts, insnDef.operands, insnDef.cpuid)
        collect(x) ==
            IF x.exc # "" THEN Out(x.exc, s, None)
            ELSE IF Len(opcodes) = 0 THEN Out("IndexError", s, None)
            ELSE IF opcodes[1] = <<"0","f">> /\ Len(opcodes) < 2
            THEN Out("IndexError", s, None)
            ELSE emit(Extended(opcodes, x.val, insnDef.vendor))
    IN  collect(CollectExts(insnDef.opcodes, <<>>))

(***************************************************************************)
(* UdOpcodeTables.patchAvx2byte                                            *)
(***************************************************************************)
\* the tuples the two loops run over; <<>> stands for the None they start with
PatchPP == << <<>>, <<"f","2">>, <<"f","3">>, <<"6","6">> >>
PatchM  == << <<>>, <<"0","f">>, <<"0","f","3","8">>, <<"0","f","3","a">> >>

\* the vex value of one iteration
PatchVex(pp, m) ==
    IF pp = <<>> THEN m
    ELSE IF m = <<>> THEN pp
    ELSE pp \o <<"_">> \o m

\* patchOne looking the table up under c5, where it is about to put it
patchOneFromC5(s, pp, m) ==
    IF pp = <<>> /\ m = <<>> THEN Out("", s, None)
    ELSE LET vex == PatchVex(pp, m)
             link(table) ==
                 IF table.exc # "" THEN Out(table.exc, s, None)
                 ELSE map(s, root, <<C5, ExtTok(VEX, vex)>>, table.val)
         IN  link(walk(s, root.ref, <<C5, ExtTok(VEX, vex)>>))

\* the body of the inner loop for one (pp, m)
patchOne(s, pp, m) ==
    IF pp = <<>> /\ m = <<>> THEN Out("", s, None)
    ELSE LET vex == PatchVex(pp, m)
             link(table) ==
                 IF table.exc # "" THEN Out(table.exc, s, None)
                 ELSE map(s, root, <<C5, ExtTok(VEX, vex)>>, table.val)
         IN  link(walk(s, root.ref, <<C4, ExtTok(VEX, vex)>>))

\* iterations i..16 of the loop nest, in order; an exception ends it
RECURSIVE patchFrom(_, _)
patchFrom(s, i) ==
    IF i > Len(PatchPP) * Len(PatchM) THEN Out("", s, None)
    ELSE LET next(r) == IF r.exc # "" THEN r ELSE patchFrom(r.s, i + 1)
         IN  next(patchOne(s, PatchPP[((i - 1) \div Len(PatchM)) + 1],
                              PatchM[((i - 1) % Len(PatchM)) + 1]))

patchAvx2byte(s) == patchFrom(s, 1)

(***************************************************************************)
(* UdOpcodeTables.mergeSSENONE                                             *)
(***************************************************************************)
\* The keys of a dict in the order entries() yields them.  The order of a
\* Python dict is left to the interpreter; the model takes ascending order.
\* The passes below visit every entry whatever the order, and only the
\* order of the elements of self._tables depends on it.
RECURSIVE Keys(_)
Keys(K) == IF K = {} THEN <<>>
           ELSE <<SetMin(K)>> \o Keys(K \ {SetMin(K)})

\* truth value of an object in "if sse:"
Truthy(e) == e # None

\* mergeOne with the test "e.numEntries() == 1" turned into "> 1"
mergeOneManyCount(s, table, k) ==
    LET e == s.heap[table].entries[k]
        replace(sse) ==
            IF sse.exc # "" THEN Out(sse.exc, s, None)
            ELSE IF Truthy(sse.val) THEN setEntryAt(s, table, k, sse.val)
            ELSE Out("", s, None)
    IN  IF IsTbl(e) /\ s.heap[e.ref].typ = SSE /\ numEntries(s, e.ref) > 1
        THEN replace(lookup(s, e.ref, ExtTok(SSE, NONE)))
        ELSE Out("", s, None)

\* mergeOne without the test "e.numEntries() == 1"
mergeOneAnyCount(s, table, k) ==
    LET e == s.heap[table].entries[k]
        replace(sse) ==
            IF sse.exc # "" THEN Out(sse.exc, s, None)
            ELSE IF Truthy(sse.val) THEN setEntryAt(s, table, k, sse.val)
            ELSE Out("", s, None)
    IN  IF IsTbl(e) /\ s.heap[e.ref].typ = SSE
        THEN replace(lookup(s, e.ref, ExtTok(SSE, NONE)))
        ELSE Out("", s, None)

\* mergeOne that stores the collapsed entry at the index of /sse=none
mergeOneAtNone(s, table, k) ==
    LET e == s.heap[table].entries[k]
        replace(sse) ==
            IF sse.exc # "" THEN Out(sse.exc, s, None)
            ELSE IF Truthy(sse.val) THEN setEntryAt(s, table, 0, sse.val)
            ELSE Out("", s, None)
    IN  IF IsTbl(e) /\ s.heap[e.ref].typ = SSE /\ numEntries(s, e.ref) = 1
        THEN replace(lookup(s, e.ref, ExtTok(SSE, NONE)))
        ELSE Out("", s, None)

\* the body of the inner loop for entry k of table
mergeOne(s, table, k) ==
    LET e == s.heap[table].entries[k]
        replace(sse) ==
            IF sse.exc # "" THEN Out(sse.exc, s, None)
            ELSE IF Truthy(sse.val) THEN setEntryAt(s, table, k, sse.val)
            ELSE Out("", s, None)
    IN  IF IsTbl(e) /\ s.heap[e.ref].typ = SSE /\ numEntries(s, e.ref) = 1
        THEN replace(lookup(s, e.ref, ExtTok(SSE, NONE)))
        ELSE Out("", s, None)

RECURSIVE mergeEntries(_, _, _)
mergeEntries(s, table, keys) ==
    IF Len(keys) = 0 THEN Out("", s, None)
    ELSE LET next(r) == IF r.exc # "" THEN r ELSE mergeEntries(r.s, table, Tail(keys))
         IN  next(mergeOne(s, table, keys[1]))

RECURSIVE mergeTables(_, _)
mergeTables(s, list) ==
    IF Len(list) = 0 THEN Out("", s, None)
    ELSE LET next(r) == IF r.exc # "" THEN r ELSE mergeTables(r.s, Tail(list))
         IN  next(mergeEntries(s, list[1], Keys(DOMAIN s.heap[list[1]].entries)))

\* genTableList: acc is self._tables as built so far; uniqTables holds
\* exactly the tables already appended
RECURSIVE genTableList(_, _, _)
RECURSIVE genEntries(_, _, _, _)
\* genTableList without uniqTables: every visit appends
genTableListAll(s, acc, tbl) ==
    genEntries(s, Append(acc, tbl), tbl, Keys(DOMAIN s.heap[tbl].entries))

genTableList(s, acc, tbl) ==
    genEntries(s, IF tbl \notin Range(acc) THEN Append(acc, tbl) ELSE acc,
               tbl, Keys(DOMAIN s.heap[tbl].entries))

genEntries(s, acc, tbl, keys) ==
    IF Len(keys) = 0 THEN acc
    ELSE genEntries(s,
                    IF IsTbl(s.heap[tbl].entries[keys[1]])
                    THEN genTableList(s, acc, s.heap[tbl].entries[keys[1]].ref)
                    ELSE acc,
                    tbl, Tail(keys))

mergeSSENONE(s) ==
    LET relist(r) ==
            IF r.exc # "" THEN r
            ELSE Out("", [r.s EXCEPT !.tables = genTableList(r.s, <<>>, root.ref)], None)
    IN  relist(mergeTables(s, s.tables))

(***************************************************************************)
(* UdOpcodeTables.printStats: the packing ratio it logs                    *)
(***************************************************************************)
RECURSIVE totalSize(_, _)
totalSize(s, list) ==
    IF Len(list) = 0 THEN 0 ELSE size(s, list[1]) + totalSize(s, Tail(list))

RECURSIVE totalEntries(_, _)
totalEntries(s, list) ==
    IF Len(list) = 0 THEN 0 ELSE numEntries(s, list[1]) + totalEntries(s, Tail(list))

printStats(s) ==
    LET div(entries, sz) == IF sz = 0 THEN Raise("ZeroDivisionError")
                            ELSE Ret((entries * 100) \div sz)
    IN  div(totalEntries(s, s.tables), totalSize(s, s.tables))

(***************************************************************************)
(* The state as one collection record, and back                            *)
(***************************************************************************)
Self == [heap |-> heap, tables |-> tables, defs |-> defs,
         insns |-> insns, mnemonics |-> mnemonics]

(***************************************************************************)
(* Bounds and inputs                                                       *)
(***************************************************************************)
MaxRecords == 3     \* records in the optable handed to __init__
MaxOps     == 3     \* calls made by the driver of the trie primitives

Rec(mn, opcs, oprs, vendor, cpuid) ==
    [mnemonic |-> mn, prefixes |-> <<>>, opcodes |-> opcs,
     operands |-> oprs, vendor |-> vendor, cpuid |-> cpuid]

\* the records parseOptableXML may hand over (the shape of its dicts)
Records == {
    Rec("addps",   << <<"0","f">>, <<"5","8">> >>,
                   <<"V", "H", "W">>, <<>>, <<"avx">>),
    Rec("addpd",   << ExtTok(SSE, <<"6","6">>), <<"0","f">>, <<"5","8">> >>,
                   <<"V", "H", "W">>, <<>>, <<"avx">>),
    Rec("blendps", << <<"0","f">>, <<"3","a">>, <<"0","c">>,
                      ExtTok(VEXW, <<"0">>), ExtTok(SSE, <<"6","6">>) >>,
                   <<"V", "H", "W", "Ib">>, <<>>, <<"sse4", "avx">>),
    Rec("vmread",  << <<"0","f">>, <<"7","8">> >>,
                   <<"Ey", "Gy">>, << <<"i","n","t","e","l">> >>, <<>>),
    Rec("sgdt",    << <<"0","f">>, <<"0","1">>,
                      ExtTok(REG, <<"0">>), ExtTok(MOD, <<"!","1","1">>) >>,
                   <<"M">>, <<>>, <<>>),
    Rec("lgdt",    << <<"0","f">>, <<"0","1">>, ExtTok(REG, <<"9">>) >>,
                   <<"M">>, <<>>, <<>>),
    Rec("movnti",  << <<"0","f">>, <<"c","3">>,
                      ExtTok(MODE, <<"6","4">>), ExtTok(SSE, <<"0","0">>) >>,
                   <<"M", "Gy">>, <<>>, <<>>),
    Rec("crc32",   << <<"0","f">>, <<"3","8">>, <<"f","1">>,
                      ExtTok(OSIZE, <<"1","6">>), ExtTok(SSE, <<"f","2">>) >>,
                   <<"Gy", "Ev">>, <<>>, <<>>),
    Rec("fnop",    << <<"d","9">>, ExtTok(X87, <<"z","z">>) >>, <<>>, <<>>, <<>>),
    Rec("nop",     << <<"9","0">> >>, <<>>, <<>>, <<>>),
    Rec("lds",     << <<"c","5">> >>, <<"Gv", "M">>, <<>>, <<>>),
    Rec("vmovups", << <<"c","4">>, <<"1","0">>,
                      ExtTok(SSE, NONE), ExtTok(VEX, <<"0","f">>) >>,
                   <<"Vx", "Wx">>, <<>>, <<>>)
}

\* the sentinel created by __init__
invalidInsn == UdInsnDef("invalid", <<>>, <<>>, <<>>, <<>>).val

(***************************************************************************)
(* UdOpcodeTables.__init__, one step per call it makes                     *)
(***************************************************************************)
Init ==
    /\ heap = << [typ |-> OPCTBL, entries |-> <<>>] >>
    /\ tables = <<1>>
    /\ defs = <<invalidInsn>>
    /\ insns = <<1>>
    /\ mnemonics = <<>>
    /\ pc = "ingesting"
    /\ exc = ""
    /\ cur = [op |-> "__init__"]
    /\ nsteps = 0
    /\ ratio = -1

\* Outcome with the exception caught and the constructor going on
OutcomeGoOn(r, done) ==
    /\ heap' = r.s.heap
    /\ tables' = r.s.tables
    /\ defs' = r.s.defs
    /\ insns' = r.s.insns
    /\ mnemonics' = r.s.mnemonics
    /\ exc' = ""
    /\ pc' = done

\* the outcome r of a call becomes the state; an exception ends __init__
Outcome(r, done) ==
    /\ heap' = r.s.heap
    /\ tables' = r.s.tables
    /\ defs' = r.s.defs
    /\ insns' = r.s.insns
    /\ mnemonics' = r.s.mnemonics
    /\ exc' = r.exc
    /\ pc' = IF r.exc = "" THEN done ELSE "failed"

\* one iteration of "for insn in parseOptableXML(xml): self.addInsnDef(insn)"
Ingest(insnDef) ==
    /\ pc = "ingesting"
    /\ nsteps < MaxRecords
    /\ Outcome(addInsnDef(Self, insnDef), "ingesting")
    /\ cur' = [op |-> "addInsnDef", insnDef |-> insnDef]
    /\ nsteps' = nsteps + 1
    /\ UNCHANGED ratio

\* the loop is over; self.patchAvx2byte()
Patch ==
    /\ pc = "ingesting"
    /\ Outcome(patchAvx2byte(Self), "patched")
    /\ cur' = [op |-> "patchAvx2byte"]
    /\ UNCHANGED <<nsteps, ratio>>

\* mergeSSENONE called without waiting for patchAvx2byte
MergeEarly ==
    /\ pc \in {"ingesting", "patched"}
    /\ Outcome(mergeSSENONE(Self), "merged")
    /\ cur' = [op |-> "mergeSSENONE"]
    /\ UNCHANGED <<nsteps, ratio>>

\* self.mergeSSENONE()
Merge ==
    /\ pc = "patched"
    /\ Outcome(mergeSSENONE(Self), "merged")
    /\ cur' = [op |-> "mergeSSENONE"]
    /\ UNCHANGED <<nsteps, ratio>>

\* self.printStats()
Stats ==
    /\ pc = "merged"
    /\ LET log(r) == /\ exc' = r.exc
                     /\ ratio' = IF r.exc = "" THEN r.val ELSE ratio
                     /\ pc' = IF r.exc = "" THEN "finalized" ELSE "failed"
       IN  log(printStats(Self))
    /\ cur' = [op |-> "printStats"]
    /\ UNCHANGED <<heap, tables, defs, insns, mnemonics, nsteps>>

Next ==
    \/ \E insnDef \in Records : Ingest(insnDef)
    \/ Patch
    \/ Merge
    \/ Stats

Spec == Init /\ [][Next]_vars

(***************************************************************************)
(* UdOpcodeTables.__init__ as one call, on an optable of n records that    *)
(* differ in their operand size only: 90 /o=0, 90 /o=32, 90 /o=64, ...     *)
(***************************************************************************)
MaxWidths == 261    \* records in the largest such optable

\* str(n) for n >= 0
RECURSIVE Dec(_)
Dec(n) ==
    LET digit == <<"0","1","2","3","4","5","6","7","8","9">>[(n % 10) + 1]
    IN  IF n < 10 THEN <<digit>> ELSE Append(Dec(n \div 10), digit)

Widths(n) ==
    [i \in 1..n |-> Rec("op", << <<"9","0">>, ExtTok(OSIZE, Dec(32 * (i - 1))) >>,
                        <<>>, <<>>, <<>>)]

\* the loop "for insn in parseOptableXML(xml): self.addInsnDef(insn)"
RECURSIVE addInsnDefs(_, _)
addInsnDefs(s, xml) ==
    IF Len(xml) = 0 THEN Out("", s, None)
    ELSE LET next(r) == IF r.exc # "" THEN r ELSE addInsnDefs(r.s, Tail(xml))
         IN  next(addInsnDef(s, xml[1]))

\* lines 315-319 of __init__; the value is the ratio printStats logs
construct(s, xml) ==
    LET logged(s2, p) == Out(p.exc, s2, p.val)
        stats(r)  == IF r.exc # "" THEN r ELSE logged(r.s, printStats(r.s))
        merge(r)  == IF r.exc # "" THEN r ELSE stats(mergeSSENONE(r.s))
        patch(r)  == IF r.exc # "" THEN r ELSE merge(patchAvx2byte(r.s))
    IN  patch(addInsnDefs(s, xml))

Construct(xml) ==
    /\ pc = "ingesting"
    /\ nsteps = 0
    /\ LET done(r) == /\ Outcome(r, "finalized")
                      /\ ratio' = IF r.exc = "" THEN r.val ELSE ratio
       IN  done(construct(Self, xml))
    /\ cur' = [op |-> "__init__", records |-> Len(xml)]
    /\ nsteps' = Len(xml)

NextCompile == \E n \in 0..MaxWidths : Construct(Widths(n))

SpecCompile == Init /\ [][NextCompile]_vars

(***************************************************************************)
(* The insertions on their own: addInsn called, as addInsnDef calls it,    *)
(* with literal bytes and an extension map.  An exception ends the         *)
(* ingestion.                                                              *)
(***************************************************************************)
MaxInserts == 3     \* addInsn calls in a row

Call(mn, opcs, exts) ==
    [mnemonic |-> mn, prefixes |-> <<>>, opcodes |-> opcs, opcexts |-> exts,
     operands |-> <<>>, cpuid |-> <<>>]

\* the keyword arguments of the addInsn calls
InsnCalls == {
    Call("sgdt",  << <<"0","f">>, <<"0","1">> >>,
                  (REG :> <<"0">>) @@ (MOD :> <<"!","1","1">>)),
    Call("sidt",  << <<"0","f">>, <<"0","1">> >>,
                  (REG :> <<"1">>) @@ (MOD :> <<"!","1","1">>)),
    Call("sgdt",  << <<"0","f">>, <<"0","1">> >>,
                  (REG :> <<"0">>) @@ (MOD :> <<"1","1">>)),
    Call("lgdt",  << <<"0","f">>, <<"0","1">> >>, (REG :> <<"9">>)),
    Call("esc",   << <<"0","f">> >>, <<>>),
    Call("nop",   << <<"9","0">> >>, <<>>),
    Call("bad",   << <<"9","1">>, <<"z","z">> >>, (REG :> <<"1">>)),
    Call("vmovups", << <<"c","4">>, <<"1","0">> >>,
                  (VEX :> <<"0","f">>) @@ (SSE :> NONE)),
    Call("vaddps", << <<"5","8">> >>, (VEX :> <<"0","f">>))
}

AddInsn(call) ==
    /\ pc = "ingesting"
    /\ nsteps < MaxInserts
    /\ Outcome(addInsn(Self, call.mnemonic, call.prefixes, call.opcodes,
                       call.opcexts, call.operands, call.cpuid), "ingesting")
    /\ cur' = [op |-> "addInsn", call |-> call]
    /\ nsteps' = nsteps + 1
    /\ UNCHANGED ratio

NextIns == \E call \in InsnCalls : AddInsn(call)

SpecIns == Init /\ [][NextIns]_vars

(***************************************************************************)
(* A driver of the table and trie primitives: a caller that holds a        *)
(* collection and calls add, setEntryAt, map, patchAvx2byte and            *)
(* mergeSSENONE in any order on any of its tables.  An exception ends the  *)
(* call, not the caller.                                                   *)
(***************************************************************************)
\* leaves the caller created
LeafDefs == << UdInsnDef("a", <<>>, <<>>, <<>>, <<>>).val,
               UdInsnDef("b", <<>>, <<>>, <<>>, <<>>).val >>

Leaves == {Insn(2), Insn(3)}

OpSeqs == { << <<"0","f">>, ExtTok(REG, <<"3">>) >>,
            << <<"0","f">>, ExtTok(REG, <<"5">>) >>,
            << <<"0","f">>, ExtTok(MOD, <<"1","1">>) >>,
            << <<"0","f">> >>,
            << <<"5","8">>, ExtTok(SSE, NONE) >>,
            << C4, ExtTok(VEX, <<"0","f">>), <<"5","8">> >> }

OpToks == { ExtTok(REG, <<"3">>), ExtTok(REG, <<"9">>), <<"0","f">> }

OpIndexes == {0, 7, 8}

InitOps ==
    /\ heap = << [typ |-> OPCTBL, entries |-> <<>>] >>
    /\ tables = <<1>>
    /\ defs = <<invalidInsn>> \o LeafDefs
    /\ insns = <<1>>
    /\ mnemonics = <<>>
    /\ pc = "ops"
    /\ exc = ""
    /\ cur = [op |-> "__init__"]
    /\ nsteps = 0
    /\ ratio = -1

\* the outcome r of a call becomes the state; the caller goes on
OpOutcome(r) ==
    /\ pc = "ops"
    /\ nsteps < MaxOps
    /\ heap' = r.s.heap
    /\ tables' = r.s.tables
    /\ exc' = r.exc
    /\ nsteps' = nsteps + 1
    /\ UNCHANGED <<defs, insns, mnemonics, pc, ratio>>

OpMap(t, opcodes, obj) ==
    /\ OpOutcome(map(Self, Tbl(t), opcodes, obj))
    /\ cur' = [op |-> "map", tbl |-> t, opcodes |-> opcodes, obj |-> obj]

OpAdd(t, opc, obj) ==
    /\ OpOutcome(add(Self, t, opc, obj))
    /\ cur' = [op |-> "add", tbl |-> t, opc |-> opc, obj |-> obj]

OpSetEntryAt(t, index, obj) ==
    /\ OpOutcome(setEntryAt(Self, t, index, obj))
    /\ cur' = [op |-> "setEntryAt", tbl |-> t, index |-> index, obj |-> obj]

OpPatch ==
    /\ OpOutcome(patchAvx2byte(Self))
    /\ cur' = [op |-> "patchAvx2byte"]

OpMerge ==
    /\ OpOutcome(mergeSSENONE(Self))
    /\ cur' = [op |-> "mergeSSENONE"]

NextOps ==
    \/ \E t \in 1..Len(heap), opcodes \in OpSeqs, obj \in Leaves : OpMap(t, opcodes, obj)
    \/ \E t \in 1..Len(heap), opc \in OpToks, obj \in Leaves : OpAdd(t, opc, obj)
    \/ \E t \in 1..Len(heap), index \in OpIndexes, obj \in Leaves :
            OpSetEntryAt(t, index, obj)
    \/ OpPatch
    \/ OpMerge

SpecOps == InitOps /\ [][NextOps]_vars

(***************************************************************************)
(* A set of (token sequence, leaf) pairs mapped from the root of an empty  *)
(* collection, in any order.  The first exception ends the run.            *)
(***************************************************************************)
MaxPairs == 3       \* pairs in the largest set

Pair(opcodes, obj) == [opcodes |-> opcodes, obj |-> obj]

PairSeq == <<
    Pair(<< <<"0","f">>, ExtTok(REG, <<"3">>) >>, Insn(2)),
    Pair(<< <<"0","f">>, ExtTok(REG, <<"5">>) >>, Insn(3)),
    Pair(<< <<"0","f">>, ExtTok(REG, <<"3">>) >>, Insn(3)),
    Pair(<< <<"0","f">>, ExtTok(MOD, <<"1","1">>) >>, Insn(3)),
    Pair(<< <<"0","f">> >>, Insn(2)),
    Pair(<< <<"9","0">> >>, Insn(3)),
    Pair(<< C4, ExtTok(VEX, <<"0","f">>), <<"5","8">> >>, Insn(2)),
    Pair(<< C4, ExtTok(VEX, <<"0","f">>), <<"5","9">> >>, Insn(3)),
    Pair(<< C4, ExtTok(VEX, <<"6","6","_","0","f">>), <<"5","8">> >>, Insn(3)) >>

\* the empty collection the maps start from
Empty == [heap |-> << [typ |-> OPCTBL, entries |-> <<>>] >>, tables |-> <<1>>,
          defs |-> <<invalidInsn>> \o LeafDefs, insns |-> <<1>>, mnemonics |-> <<>>]

\* map(root, ..) of the pairs order[1], order[2], ... until one raises
RECURSIVE mapAll(_, _)
mapAll(s, order) ==
    IF Len(order) = 0 THEN Out("", s, None)
    ELSE LET next(r) == IF r.exc # "" THEN r ELSE mapAll(r.s, Tail(order))
         IN  next(map(s, root, PairSeq[order[1]].opcodes, PairSeq[order[1]].obj))

InitPerm ==
    /\ heap = Empty.heap
    /\ tables = Empty.tables
    /\ defs = Empty.defs
    /\ insns = Empty.insns
    /\ mnemonics = Empty.mnemonics
    /\ pc = "mapping"
    /\ exc = ""
    /\ cur \in { [op |-> "map", all |-> P, todo |-> P] :
                    P \in { Q \in SUBSET (1..Len(PairSeq)) :
                              Cardinality(Q) >= 1 /\ Cardinality(Q) <= MaxPairs } }
    /\ nsteps = 0
    /\ ratio = -1

MapPair(i) ==
    /\ pc = "mapping"
    /\ i \in cur.todo
    /\ LET done(r) ==
              /\ heap' = r.s.heap
              /\ tables' = r.s.tables
              /\ exc' = r.exc
              /\ pc' = IF r.exc # "" THEN "failed"
                       ELSE IF cur.todo = {i} THEN "mapped" ELSE "mapping"
       IN  done(map(Self, root, PairSeq[i].opcodes, PairSeq[i].obj))
    /\ cur' = [cur EXCEPT !.todo = @ \ {i}]
    /\ nsteps' = nsteps + 1
    /\ UNCHANGED <<defs, insns, mnemonics, ratio>>

NextPerm == \E i \in 1..Len(PairSeq) : MapPair(i)

SpecPerm == InitPerm /\ [][NextPerm]_vars

(***************************************************************************)
(* The resolvers on their own: getOpcodeIdx applied to one token.          *)
(***************************************************************************)
HexChars == {"0","1","2","3","4","5","6","7","8","9","a","b","c","d","e","f"}

\* the symbolic values each extension kind is documented to take
Vocabulary ==
    [k \in OpcExtKinds |->
       CASE k = MOD    -> { <<"!","1","1">>, <<"1","1">> }
         [] k \in {OSIZE, ASIZE} -> { <<"1","6">>, <<"3","2">>, <<"6","4">> }
         [] k = MODE   -> { <<"6","4">>, <<"!","6","4">>, <<"3","2">>, <<"1","6">> }
         [] k = SSE    -> { NONE, <<"f","2">>, <<"f","3">>, <<"6","6">> }
         [] k = VEXW   -> { <<"0">>, <<"1">> }
         [] k = VENDOR -> { <<"a","m","d">>, <<"i","n","t","e","l">>, <<"a","n","y">> }
         [] k = VEX    ->
              LET canon == { IF pp = NONE THEN m
                             ELSE IF m = NONE THEN pp
                             ELSE pp \o <<"_">> \o m :
                               pp \in {NONE, <<"f","2">>, <<"f","3">>, <<"6","6">>},
                               m  \in {NONE, <<"0","f">>, <<"0","f","3","8">>,
                                       <<"0","f","3","a">>} }
              IN  canon \cup { NONE \o <<"_">> \o v : v \in canon }
         [] k \in {REG, RM} -> { <<d>> : d \in {"0","1","2","3","4","5","6","7"} }
         [] k = X87    -> { <<a, b>> : a \in {"0","1","2","3"}, b \in HexChars }
         [] k = DNOW   -> { <<a, b>> : a \in HexChars, b \in HexChars } ]

VocabularyTokens == UNION { { ExtTok(k, v) : v \in Vocabulary[k] } : k \in OpcExtKinds }

\* tokens outside the vocabulary
OtherTokens == { ExtTok(REG, <<"9">>), ExtTok(OSIZE, <<"1","2","8">>),
                 ExtTok(X87, <<"4","0">>), ExtTok(SSE, <<"0","f">>),
                 ExtTok(VEX, <<"6","6","_","6","6">>), ExtTok(RM, <<"-","1">>),
                 ExtTok(<<"/","f","o","o">>, <<"1">>), <<"/","r","e","g">>,
                 <<"0","f">>, <<"f","f">>, <<"1","0","0">>, <<"z","z">> }

InitIdx ==
    /\ heap = << [typ |-> OPCTBL, entries |-> <<>>] >>
    /\ tables = <<1>>
    /\ defs = <<invalidInsn>>
    /\ insns = <<1>>
    /\ mnemonics = <<>>
    /\ pc = "resolving"
    /\ exc = ""
    /\ cur \in { [op |-> "getOpcodeIdx", opc |-> t, idx |-> -1] :
                    t \in VocabularyTokens \cup OtherTokens }
    /\ nsteps = 0
    /\ ratio = -1

Resolve ==
    /\ pc = "resolving"
    /\ LET answer(r) == /\ exc' = r.exc
                        /\ cur' = [cur EXCEPT !.idx = r.val]
       IN  answer(getOpcodeIdx(cur.opc))
    /\ pc' = "resolved"
    /\ UNCHANGED <<heap, tables, defs, insns, mnemonics, nsteps, ratio>>

NextIdx == Resolve

SpecIdx == InitIdx /\ [][NextIdx]_vars

(***************************************************************************)
(* Properties                                                              *)
(***************************************************************************)
\* the definitions that were inserted: self._insns without the sentinel
Inserted == {insns[i] : i \in 2..Len(insns)}

\* the tables reachable from the root by following entries
RECURSIVE ReachFrom(_, _)
ReachFrom(h, S) ==
    LET more == S \cup UNION { { h[t].entries[k].ref :
                                    k \in {i \in DOMAIN h[t].entries :
                                              IsTbl(h[t].entries[i])} } : t \in S }
    IN  IF more = S THEN S ELSE ReachFrom(h, more)

Reach == ReachFrom(heap, {root.ref})

\* a /sse table whose only populated slot is the /sse=none slot
OnlyNone(h, t) == h[t].typ = SSE /\ DOMAIN h[t].entries = {0}

\* the token sequence goes on after a /sse token whose table was collapsed:
\* the tokens before it lead to a table that is not the /sse table
CutShort(opcodes) ==
    \E j \in 2..(Len(opcodes) - 1) :
        /\ StartsWith(opcodes[j], <<"/","s","s","e","=">>)
        /\ LET w == walk(Self, root.ref, SubSeq(opcodes, 1, j - 1))
           IN  w.exc = "" /\ IsTbl(w.val) /\ heap[w.val.ref].typ # SSE

\* C1 (as stated): once the collection is finalized, walking the full
\* opcode-token sequence of every inserted definition from the root returns
\* exactly that definition, without raising.
C1_RoundTrip ==
    pc = "finalized" =>
        \A d \in Inserted : walk(Self, root.ref, defs[d].opcodes) = Ret(Insn(d))

\* C1 (amended): once the collection is finalized, walking the full
\* opcode-token sequence of an inserted definition from the root returns
\* exactly that definition, unless the sequence goes on after a /sse token
\* whose table mergeSSENONE collapsed; for such a definition the walk
\* raises the table's kind-mismatch error.
C1_RoundTripUnlessCutShort ==
    pc = "finalized" =>
        \A d \in Inserted :
            IF CutShort(defs[d].opcodes)
            THEN walk(Self, root.ref, defs[d].opcodes).exc = "UdOpcodeTable.CollisionError"
            ELSE walk(Self, root.ref, defs[d].opcodes) = Ret(Insn(d))

\* a finalized collection holding a definition that ends in "/sse=none",
\* whose /sse table was collapsed, and that is still found
C1_Witness ==
    /\ pc = "finalized"
    /\ \E d \in Inserted :
          LET o == defs[d].opcodes
          IN  /\ Len(o) = 3 /\ o[3] = ExtTok(SSE, NONE)
              /\ walk(Self, root.ref, SubSeq(o, 1, 2)) = Ret(Insn(d))
              /\ walk(Self, root.ref, o) = Ret(Insn(d))
    /\ \E d \in Inserted :
          LET o == defs[d].opcodes
          IN  o[Len(o)] = ExtTok(SSE, <<"6","6">>)

\* C9: getOpcodeIdx maps every token of the vocabulary of every extension
\* kind to an index that is at least 0 and less than the size _TableInfo
\* declares for the kind.
C9_ResolverRange ==
    (pc = "resolved" /\ cur.opc \in VocabularyTokens) =>
        /\ exc = ""
        /\ cur.idx >= 0
        /\ cur.idx < TableInfo[getOpcodeTyp(cur.opc)]

\* the vendor "any other" resolved to the last index of the /vendor table
C9_Witness ==
    /\ pc = "resolved"
    /\ cur.opc = ExtTok(VENDOR, <<"a","n","y">>)
    /\ cur.idx = TableInfo[VENDOR] - 1

\* the last call was a map that returned
MapReturned == cur.op = "map" /\ exc = ""

\* this step is a call of map on the table of the last call
MapAgain == /\ nsteps' = nsteps + 1
            /\ cur'.op = "map"
            /\ cur'.tbl = cur.tbl

\* the table in which map(tbl, opcodes, ..) places its leaf, in heap h
LeafTable(h, tbl, opcodes) ==
    IF Len(opcodes) = 1 THEN tbl
    ELSE walk([heap |-> h], tbl, SubSeq(opcodes, 1, Len(opcodes) - 1)).val.ref

\* a and b share all tokens but the last, and their last tokens resolve to
\* different indices of the same kind
SiblingTokens(a, b) ==
    /\ Len(a) = Len(b)
    /\ SubSeq(a, 1, Len(a) - 1) = SubSeq(b, 1, Len(b) - 1)
    /\ getOpcodeTyp(a[Len(a)]) = getOpcodeTyp(b[Len(b)])
    /\ getOpcodeIdx(a[Len(a)]).exc = "" /\ getOpcodeIdx(b[Len(b)]).exc = ""
    /\ getOpcodeIdx(a[Len(a)]).val # getOpcodeIdx(b[Len(b)]).val

\* C2: when map(table, tokens, leaf1) has returned, map(table, tokens, leaf2)
\* with another leaf2 raises the collision error and leaves the tables as
\* they were; and when the last token of the second sequence is a sibling of
\* the first one's (same prefix, same kind, another index) whose slot is not
\* populated, the second map returns too and both leaves sit in the same
\* table.
C2_SlotCollision ==
    [][ (MapReturned /\ MapAgain) =>
          /\ (cur'.opcodes = cur.opcodes /\ cur'.obj # cur.obj) =>
                /\ exc' = "UdOpcodeTables.CollisionError"
                /\ heap' = heap
          /\ ( /\ SiblingTokens(cur.opcodes, cur'.opcodes)
               /\ getOpcodeIdx(cur'.opcodes[Len(cur'.opcodes)]).val \notin
                    DOMAIN heap[LeafTable(heap, cur.tbl, cur.opcodes)].entries ) =>
                LET t  == LeafTable(heap, cur.tbl, cur.opcodes)
                    i1 == getOpcodeIdx(cur.opcodes[Len(cur.opcodes)]).val
                    i2 == getOpcodeIdx(cur'.opcodes[Len(cur'.opcodes)]).val
                IN  /\ exc' = ""
                    /\ LeafTable(heap', cur'.tbl, cur'.opcodes) = t
                    /\ heap'[t].entries[i1] = cur.obj
                    /\ heap'[t].entries[i2] = cur'.obj ]_vars

\* two leaves were mapped to /reg=3 and /reg=5 under 0f, a third map to
\* /reg=5 collided, and both sit in the one /reg table
C2_Witness ==
    /\ cur.op = "map"
    /\ exc = "UdOpcodeTables.CollisionError"
    /\ nsteps = 3
    /\ \E t \in 1..Len(heap) :
          /\ heap[t].typ = REG
          /\ DOMAIN heap[t].entries = {3, 5}
          /\ heap[t].entries[3] # heap[t].entries[5]

\* the record handed to the addInsnDef call of this step carries /sse, given
\* or synthesized
HasSse(insnDef) ==
    \/ \E i \in 1..Len(insnDef.opcodes) :
          StartsWith(insnDef.opcodes[i], <<"/","s","s","e","=">>)
    \/ LET plain == SelectSeq(insnDef.opcodes, LAMBDA o : o[1] # "/")
       IN  plain[1] = <<"0","f">> /\ plain[2] # <<"0","f">>

\* the value of the record's /sse extension
SseValue(insnDef) ==
    LET given == {i \in 1..Len(insnDef.opcodes) :
                    StartsWith(insnDef.opcodes[i], <<"/","s","s","e","=">>)}
    IN  IF given = {} THEN <<"n","o","n","e">>
        ELSE LET o == insnDef.opcodes[CHOOSE i \in given : \A j \in given : j <= i]
             IN  SubSeq(o, 6, Len(o))

\* C3: an addInsnDef call that returns appends, for a record with 'avx' in
\* its cpuid and a /sse extension (given or synthesized), exactly two
\* definitions: first one with the record's mnemonic, its operands without
\* H and L and no /vexw token, then one with mnemonic 'v' + original, first
\* token 'c4' and a /vex token whose value is the /sse value, '_', and one of
\* 0f, 0f38, 0f3a.  For any other record it appends exactly one definition.
C3_AvxDerivation ==
    [][ (pc = "ingesting" /\ pc' = "ingesting" /\ nsteps' = nsteps + 1) =>
          LET r == cur'.insnDef
              n == Len(insns)
          IN  /\ SubSeq(insns', 1, n) = insns
              /\ IF (\E i \in 1..Len(r.cpuid) : r.cpuid[i] = "avx") /\ HasSse(r)
                 THEN /\ Len(insns') = n + 2
                      /\ LET d1 == defs'[insns'[n + 1]]
                             d2 == defs'[insns'[n + 2]]
                         IN  /\ d1.mnemonic = r.mnemonic
                             /\ d1.operands = SelectSeq(r.operands,
                                                LAMBDA o : o # "H" /\ o # "L")
                             /\ \A i \in 1..Len(d1.opcodes) :
                                   ~StartsWith(d1.opcodes[i], <<"/","v","e","x","w">>)
                             /\ d2.mnemonic = "v" \o r.mnemonic
                             /\ d2.opcodes[1] = <<"c","4">>
                             /\ \E i \in 1..Len(d2.opcodes), esc \in
                                     { <<"0","f">>, <<"0","f","3","8">>,
                                       <<"0","f","3","a">> } :
                                   d2.opcodes[i] = <<"/","v","e","x","=">>
                                                   \o SseValue(r) \o <<"_">> \o esc
                 ELSE Len(insns') = n + 1 ]_vars

\* addps (avx, /sse=none synthesized) and blendps (avx, /sse=66 given with a
\* /vexw) were ingested, two definitions each
C3_Witness ==
    /\ pc = "ingesting"
    /\ Len(insns) = 5
    /\ {defs[d].mnemonic : d \in Inserted} = {"addps", "vaddps", "blendps", "vblendps"}
    /\ \E d \in Inserted :
          /\ defs[d].mnemonic = "vblendps"
          /\ defs[d].opcodes[2] = <<"/","v","e","x","=","6","6","_","0","f","3","a">>

\* the 15 vex values of the (prefix, escape) pairs other than (none, none)
AliasedVex ==
    { IF Len(pp) = 0 THEN m ELSE IF Len(m) = 0 THEN pp ELSE pp \o <<"_">> \o m :
        pp \in { <<>>, <<"f","2">>, <<"f","3">>, <<"6","6">> },
        m  \in { <<>>, <<"0","f">>, <<"0","f","3","8">>, <<"0","f","3","a">> } }
    \ { <<>> }

\* walk(root, [byte, '/vex=' + v]) in the collection c
VexWalk(c, byte, v) == walk(c, 1, <<byte, <<"/","v","e","x","=">> \o v>>)

\* C4: when patchAvx2byte has returned, every vex value of the 15 pairs for
\* which walking c4 yielded a table before the call leads, under c5, to that
\* same table object, which the call did not change.
C4_AliasPatching ==
    [][ (pc = "ingesting" /\ pc' = "patched") =>
          \A v \in AliasedVex :
              (VexWalk(Self, <<"c","4">>, v).exc = ""
                 /\ IsTbl(VexWalk(Self, <<"c","4">>, v).val)) =>
                  /\ VexWalk(Self', <<"c","5">>, v) = VexWalk(Self, <<"c","4">>, v)
                  /\ VexWalk(Self', <<"c","4">>, v) = VexWalk(Self, <<"c","4">>, v)
                  /\ heap'[VexWalk(Self, <<"c","4">>, v).val.ref]
                        = heap[VexWalk(Self, <<"c","4">>, v).val.ref] ]_vars

\* after patching, the tables under c4 for 0f and 66_0f3a are the ones
\* under c5
C4_Witness ==
    /\ pc = "patched"
    /\ \A v \in { <<"0","f">>, <<"6","6","_","0","f","3","a">> } :
          /\ IsTbl(VexWalk(Self, <<"c","4">>, v).val)
          /\ VexWalk(Self, <<"c","5">>, v) = VexWalk(Self, <<"c","4">>, v)

\* C5: when mergeSSENONE has returned, self._tables holds no /sse table whose
\* only populated slot is /sse=none, and every slot that referenced such a
\* table before the call holds the entry of that table's none slot.
C5_SseCollapsing ==
    [][ (pc = "patched" /\ pc' = "merged") =>
          /\ \A i \in 1..Len(tables') : ~OnlyNone(heap', tables'[i])
          /\ \A t \in 1..Len(heap) : \A k \in DOMAIN heap[t].entries :
                (IsTbl(heap[t].entries[k]) /\ OnlyNone(heap, heap[t].entries[k].ref)) =>
                    heap'[t].entries[k] = heap[heap[t].entries[k].ref].entries[0] ]_vars

\* a merged collection in which one /sse table was collapsed (it is left out
\* of self._tables) and another, with two slots, was kept
C5_Witness ==
    /\ pc = "merged"
    /\ \E t \in 1..Len(heap) : OnlyNone(heap, t) /\ t \notin Range(tables)
    /\ \E t \in Range(tables) : heap[t].typ = SSE /\ DOMAIN heap[t].entries = {0, 3}

\* C6: once mergeSSENONE has returned, self._tables holds exactly the tables
\* reachable from the root, the root included, each of them once.
C6_LiveTableList ==
    pc \in {"merged", "finalized"} =>
        /\ Range(tables) = Reach
        /\ root.ref \in Range(tables)
        /\ \A i, j \in 1..Len(tables) : i # j => tables[i] # tables[j]

\* the slots of the tables of self._tables that reference table t
Parents(t) == { <<p, k>> \in UNION { {p} \X DOMAIN heap[p].entries : p \in Range(tables) } :
                  heap[p].entries[k] = Tbl(t) }

\* a finalized collection with a table referenced from two slots and a
\* table that collapsing made unreachable
C6_Witness ==
    /\ pc = "finalized"
    /\ \E t \in Range(tables) : Cardinality(Parents(t)) = 2
    /\ \E t \in 1..Len(heap) : t \notin Range(tables)

RECURSIVE SumOver(_, _)
SumOver(S, f) ==
    IF S = {} THEN 0
    ELSE LET x == CHOOSE y \in S : TRUE IN f[x] + SumOver(S \ {x}, f)

\* C7 (as stated): the packing ratio printStats logs lies in 0..100 and is 100 times the
\* populated slots of the tables of self._tables, each table counted once,
\* divided (integer division) by the sum of their sizes.
C7_PackingRatio ==
    pc = "finalized" =>
        /\ ratio \in 0..100
        /\ ratio = (100 * SumOver(Range(tables),
                                  [t \in Range(tables) |->
                                      Cardinality(DOMAIN heap[t].entries)]))
                   \div SumOver(Range(tables),
                                [t \in Range(tables) |-> TableInfo[heap[t].typ]])

\* C8 (as stated): every populated index of every table lies in
\* 0 .. size - 1, and an add or setEntryAt with an index at or above the size
\* fails and stores nothing.
C8_IndexBound ==
    \A t \in 1..Len(heap) : \A k \in DOMAIN heap[t].entries :
        k >= 0 /\ k < TableInfo[heap[t].typ]

\* C10 (as stated): in the finalized collection every populated slot of
\* every table of self._tables holds a table or a definition, never None, and
\* the /vex table under c5 has a populated slot only for the vex values that
\* have a table under c4.
C10_NoAbsentEntry ==
    pc = "finalized" =>
        /\ \A t \in Range(tables) : \A k \in DOMAIN heap[t].entries :
              heap[t].entries[k] # None
        /\ \A v \in AliasedVex :
              VexWalk(Self, <<"c","5">>, v).val # None
                 => IsTbl(VexWalk(Self, <<"c","4">>, v).val)

KindRank(tok) ==
    LET order == << <<"/","m","o","d">>, <<"/","x","8","7">>, <<"/","r","e","g">>,
                    <<"/","r","m">>, <<"/","s","s","e">>, <<"/","o">>, <<"/","a">>,
                    <<"/","m">>, <<"/","v","e","x","w">>, <<"/","3","d","n","o","w">>,
                    <<"/","v","e","n","d","o","r">> >>
        at == {i \in 1..Len(order) : StartsWith(tok, order[i] \o <<"=">>)}
    IN  IF at = {} THEN 0 ELSE CHOOSE i \in at : TRUE

IsVexTok(tok) == StartsWith(tok, <<"/","v","e","x","=">>)

\* o is the literal bytes, in their order, with the /vex token (if any) right
\* after the first byte, followed by extension tokens of strictly ascending
\* rank, each of them an extension of the record or one addInsnDef synthesizes
CanonicalOrder(o, bytes, r) ==
    LET rest == SelectSeq(o, LAMBDA t : ~IsVexTok(t))
        n    == Len(bytes)
    IN  /\ Len(rest) >= n
        /\ SubSeq(rest, 1, n) = bytes
        /\ \A i \in (n + 1)..Len(rest) :
              /\ KindRank(rest[i]) > 0
              /\ i > n + 1 => KindRank(rest[i - 1]) < KindRank(rest[i])
              /\ \/ \E j \in 1..Len(r.opcodes) : r.opcodes[j] = rest[i]
                 \/ rest[i] = <<"/","s","s","e","=","n","o","n","e">>
                 \/ StartsWith(rest[i], <<"/","v","e","n","d","o","r","=">>)
        /\ \A i \in 1..Len(o) : IsVexTok(o[i]) => i = 2
        /\ \A i, j \in 1..Len(o) :
              (StartsWith(o[i], <<"/","s","s","e","=">>)
                 /\ StartsWith(o[j], <<"/","o","=">>)) => i < j

\* the literal bytes of a record, in their order
Bytes(r) == SelectSeq(r.opcodes, LAMBDA t : t[1] # "/")

\* the literal bytes of the VEX form: c4, then the record's bytes after the
\* escape (0f, or 0f followed by 38 or 3a)
VexBytes(r) ==
    LET b == Bytes(r)
    IN  << <<"c","4">> >> \o
        (IF b[2] \in { <<"3","8">>, <<"3","a">> } THEN SubSeq(b, 3, Len(b))
         ELSE SubSeq(b, 2, Len(b)))

\* C12: the opcode-token sequence of every definition an addInsnDef call
\* that returns has added is in canonical order: the literal bytes in their
\* original order, /vex right after the first byte, then the extension
\* tokens in the fixed order, each kind at most once, /sse before /o,
\* whatever the order of the extensions in the record.
C12_CanonicalOrder ==
    [][ (pc = "ingesting" /\ pc' = "ingesting" /\ nsteps' = nsteps + 1) =>
          LET r == cur'.insnDef
              n == Len(insns)
          IN  /\ CanonicalOrder(defs'[insns'[n + 1]].opcodes, Bytes(r), r)
              /\ Len(insns') = n + 2 =>
                    CanonicalOrder(defs'[insns'[n + 2]].opcodes, VexBytes(r), r) ]_vars

\* crc32, whose record gives /o=16 before /sse=f2, and blendps with its VEX
\* form were ingested
C12_Witness ==
    /\ pc = "ingesting"
    /\ \E d \in Inserted :
          defs[d].opcodes = << <<"0","f">>, <<"3","8">>, <<"f","1">>,
                               <<"/","s","s","e","=","f","2">>, <<"/","o","=","1","6">> >>
    /\ \E d \in Inserted :
          defs[d].opcodes = << <<"c","4">>, <<"/","v","e","x","=","6","6","_","0","f","3","a">>,
                               <<"0","c">>, <<"/","v","e","x","w","=","0">> >>

\* C13: the constructor goes from ingesting to patched (alias patching
\* done) to merged (collapsing done) to finalized, each once and in this
\* order, or ends in failed; definitions are inserted while ingesting only,
\* patchAvx2byte runs once the ingestion is over, mergeSSENONE only when
\* patchAvx2byte has returned, and no step leaves finalized.
C13_PhaseOrder ==
    [][ /\ pc = "ingesting" => pc' \in {"ingesting", "patched", "failed"}
        /\ pc = "patched"   => pc' \in {"merged", "failed"}
        /\ pc = "merged"    => pc' \in {"finalized", "failed"}
        /\ pc # "finalized"
        /\ (pc' = "ingesting") = (cur'.op = "addInsnDef" /\ exc' = "")
        /\ (insns' # insns \/ defs' # defs \/ mnemonics' # mnemonics) =>
              (pc = "ingesting" /\ cur'.op = "addInsnDef")
        /\ cur'.op = "patchAvx2byte" => pc = "ingesting"
        /\ cur'.op = "mergeSSENONE"  => pc = "patched"
        /\ cur'.op = "printStats"    => pc = "merged" ]_vars

\* a finalized collection of three records, reached through printStats
C13_Witness ==
    /\ pc = "finalized"
    /\ cur.op = "printStats"
    /\ nsteps = 3
    /\ Len(insns) >= 4

\* C14: when the insertion of a definition fails, the constructor ends in
\* the failed state, from which no step is taken (no further record, no
\* patchAvx2byte, no mergeSSENONE, no finalized collection); every step is
\* taken with no exception pending, and every addInsnDef call on the way to
\* finalized has returned and added a definition.
C14_FatalAbort ==
    [][ /\ pc # "failed"
        /\ exc = ""
        /\ (exc' # "") = (pc' = "failed")
        /\ (cur'.op = "addInsnDef" /\ exc' = "") =>
              (Len(insns') > Len(insns) /\ pc' = "ingesting")
        /\ (cur'.op = "addInsnDef" /\ Len(insns') = Len(insns)) => pc' = "failed"
        /\ pc' = "finalized" => Len(insns') - 1 >= nsteps' ]_vars

\* the constructor failed on its third record with a kind mismatch: lgdt
\* brings /reg where sgdt made a /mod table
C14_Witness ==
    /\ pc = "failed"
    /\ exc = "UdOpcodeTable.CollisionError"
    /\ cur.op = "addInsnDef"
    /\ cur.insnDef.mnemonic = "lgdt"
    /\ nsteps = 3
    /\ Len(insns) = 3

\* the slots of heap h that hold an instruction definition
LeafSlots(h) ==
    UNION { { <<t, k>> : k \in {i \in DOMAIN h[t].entries : h[t].entries[i].k = "insn"} } :
              t \in 1..Len(h) }

\* C15: while ingesting, after every map(root, tokens, leaf) that returned,
\* walk(root, tokens_i) returns leaf_i for every definition inserted so far;
\* the call left every slot populated before it as it was, and added
\* exactly one slot holding a leaf.
C15_InsertPreserves ==
    [][ (cur'.op = "addInsn" /\ exc' = "") =>
          /\ \A d \in Inserted' : walk(Self', root.ref, defs'[d].opcodes) = Ret(Insn(d))
          /\ \A t \in 1..Len(heap) : \A k \in DOMAIN heap[t].entries :
                /\ k \in DOMAIN heap'[t].entries
                /\ heap'[t].entries[k] = heap[t].entries[k]
          /\ LeafSlots(heap) \subseteq LeafSlots(heap')
          /\ Cardinality(LeafSlots(heap') \ LeafSlots(heap)) = 1 ]_vars

\* three definitions that share the path 0f 01 were inserted one after the
\* other, and all three are found
C15_Witness ==
    /\ pc = "ingesting"
    /\ cur.op = "addInsn"
    /\ Len(insns) = 4
    /\ \A d \in Inserted :
          /\ Len(defs[d].opcodes) = 4
          /\ SubSeq(defs[d].opcodes, 1, 2) = << <<"0","f">>, <<"0","1">> >>
          /\ walk(Self, root.ref, defs[d].opcodes) = Ret(Insn(d))

\* C18: when map fails inside addInsn, the tables reachable from the root,
\* with all their entries, are what they were before the call, and the
\* definition is neither in the instruction list nor in the mnemonic index.
C18_FailedInsert ==
    [][ (cur'.op = "addInsn" /\ exc' # "") =>
          /\ ReachFrom(heap', {root.ref}) = Reach
          /\ \A t \in Reach : heap'[t] = heap[t]
          /\ insns' = insns
          /\ mnemonics' = mnemonics ]_vars

\* an insertion failed on a byte that is no hexadecimal number, after mkTrie
\* had created tables for the rest of the chain
C18_Witness ==
    /\ pc = "failed"
    /\ cur.op = "addInsn"
    /\ exc = "ValueError"
    /\ Len(heap) > Cardinality(Reach)
    /\ Len(insns) = 3

\* on the way down from table t of heap h along opcodes, a token meets a
\* table of another kind than its own
RECURSIVE KindClash(_, _, _)
KindClash(h, t, opcodes) ==
    IF Len(opcodes) = 0 THEN FALSE
    ELSE IF h[t].typ # getOpcodeTyp(opcodes[1]) THEN TRUE
    ELSE LET i == getOpcodeIdx(opcodes[1])
         IN  /\ i.exc = ""
             /\ i.val \in DOMAIN h[t].entries
             /\ IsTbl(h[t].entries[i.val])
             /\ KindClash(h, h[t].entries[i.val].ref, Tail(opcodes))

\* the slots populated in heap h2 and not in heap h1
NewSlots(h1, h2) ==
    UNION { { <<t, k>> : k \in {i \in DOMAIN h2[t].entries :
                                   t > Len(h1) \/ i \notin DOMAIN h1[t].entries} } :
              t \in 1..Len(h2) }

\* the tokens handed to the call that cur describes
CallTokens(c) ==
    IF c.op = "add" THEN {c.opc}
    ELSE IF c.op = "map" THEN Range(c.opcodes)
    ELSE IF c.op = "patchAvx2byte"
    THEN { <<"c","5">> } \cup { <<"/","v","e","x","=">> \o v : v \in AliasedVex }
    ELSE {}

\* C16: lookup, add and map of a token whose kind is not the kind of the
\* table it meets raise and leave every table as it was; and every slot
\* that a call taking tokens (add, map, patchAvx2byte) populates lies in a
\* table of the kind of one of the call's tokens, at the index that token
\* resolves to, while mergeSSENONE populates no slot.
C16_KindHomogeneity ==
    [][ /\ \A t \in 1..Len(heap), opc \in OpToks :
              heap[t].typ # getOpcodeTyp(opc) => lookup(Self, t, opc).exc # ""
        /\ (cur'.op = "add" /\ heap[cur'.tbl].typ # getOpcodeTyp(cur'.opc)) =>
              (exc' # "" /\ heap' = heap)
        /\ (cur'.op = "map" /\ KindClash(heap, cur'.tbl, cur'.opcodes)) =>
              (exc' # "" /\ heap' = heap)
        /\ cur'.op \in {"add", "map", "patchAvx2byte", "mergeSSENONE"} =>
              \A x \in NewSlots(heap, heap') :
                 \E tok \in CallTokens(cur') :
                    /\ getOpcodeTyp(tok) = heap'[x[1]].typ
                    /\ getOpcodeIdx(tok) = Ret(x[2]) ]_vars

\* map(root, [0f, /mod=11]) raised the kind-mismatch error of lookup on the
\* /reg table that an earlier map put under 0f
C16_Witness ==
    /\ cur.op = "map"
    /\ cur.tbl = root.ref
    /\ cur.opcodes = << <<"0","f">>, <<"/","m","o","d","=","1","1">> >>
    /\ exc = "UdOpcodeTable.CollisionError"
    /\ IsTbl(Get(heap[root.ref].entries, 15))
    /\ heap[Get(heap[root.ref].entries, 15).ref].typ = <<"/","r","e","g">>

\* table t is what both walk(root, [c4, /vex=v]) and walk(root, [c5, /vex=v])
\* return
SharedAt(t, v) ==
    /\ VexWalk(Self, <<"c","4">>, v) = Ret(Tbl(t))
    /\ VexWalk(Self, <<"c","5">>, v) = Ret(Tbl(t))

RECURSIVE Shape(_, _)
Shape(h, e) ==
    IF IsTbl(e)
    THEN [typ |-> h[e.ref].typ,
          entries |-> [k \in DOMAIN h[e.ref].entries |-> Shape(h, h[e.ref].entries[k])]]
    ELSE e

\* C19: for a set of (token sequence, leaf) pairs mapped from the root of an
\* empty collection, an order in which a map raises exists only if the maps
\* in ascending order raise too, and an order in which all maps return
\* leaves the trie that the ascending order leaves; so all orders agree.
C19_OrderIndependence ==
    /\ pc = "failed" => mapAll(Empty, Keys(cur.all)).exc # ""
    /\ pc = "mapped" =>
          /\ mapAll(Empty, Keys(cur.all)).exc = ""
          /\ Shape(mapAll(Empty, Keys(cur.all)).s.heap, root) = Shape(heap, root)

\* three pairs under c4, two of them under the same /vex table, were mapped
\* in descending order
C19_Witness ==
    /\ pc = "mapped"
    /\ cur.all = {7, 8, 9}
    /\ Len(heap) = 4
    /\ heap[3].entries = (88 :> Insn(3))
    /\ heap[4].entries = (88 :> Insn(2)) @@ (89 :> Insn(3))

\* the 16 canonical /vex values: a prefix of none, f2, f3, 66 by an escape
\* of none, 0f, 0f38, 0f3a
CanonicalVex == AliasedVex \cup { <<"n","o","n","e">> }

\* the value of a hexadecimal digit
Nibble(c) ==
    CASE c = "0" -> 0 [] c = "1" -> 1 [] c = "2" -> 2 [] c = "3" -> 3 [] c = "4" -> 4
      [] c = "5" -> 5 [] c = "6" -> 6 [] c = "7" -> 7 [] c = "8" -> 8 [] c = "9" -> 9
      [] c = "a" -> 10 [] c = "b" -> 11 [] c = "c" -> 12 [] c = "d" -> 13
      [] c = "e" -> 14 [] c = "f" -> 15

\* the indices the resolvers are documented to give
Documented ==
       (<<"/","s","s","e","=","n","o","n","e">> :> 0)
    @@ (<<"/","s","s","e","=","f","2">> :> 1)
    @@ (<<"/","s","s","e","=","f","3">> :> 2)
    @@ (<<"/","s","s","e","=","6","6">> :> 3)
    @@ (<<"/","o","=","1","6">> :> 0) @@ (<<"/","o","=","3","2">> :> 1)
    @@ (<<"/","o","=","6","4">> :> 2) @@ (<<"/","o","=","1","2","8">> :> 4)
    @@ (<<"/","a","=","1","6">> :> 0) @@ (<<"/","a","=","3","2">> :> 1)
    @@ (<<"/","a","=","6","4">> :> 2)
    @@ (<<"/","m","o","d","=","!","1","1">> :> 0)
    @@ (<<"/","m","o","d","=","1","1">> :> 1)

\* C20: getOpcodeIdx gives /sse none -> 0, f2 -> 1, f3 -> 2, 66 -> 3 and for
\* a byte ((low nibble) + 1) / 2; /o and /a 16 -> 0, 32 -> 1, 64 -> 2 (the
\* width divided by 32); /mod !11 -> 0, 11 -> 1; /vex=none_X the index of
\* /vex=X; and the 16 canonical /vex values 16 distinct indices in 0..15.
C20_ResolverValues ==
    pc = "resolved" =>
        /\ cur.opc \in DOMAIN Documented => (exc = "" /\ cur.idx = Documented[cur.opc])
        /\ (StartsWith(cur.opc, <<"/","s","s","e","=">>) /\ Len(cur.opc) = 7) =>
              (exc = "" /\ cur.idx = (Nibble(cur.opc[7]) + 1) \div 2)
        /\ \A v \in CanonicalVex :
              /\ cur.opc = <<"/","v","e","x","=","n","o","n","e","_">> \o v =>
                    (exc = "" /\ Ret(cur.idx) = getOpcodeIdx(<<"/","v","e","x","=">> \o v))
              /\ cur.opc = <<"/","v","e","x","=">> \o v =>
                    /\ exc = ""
                    /\ cur.idx \in 0..15
                    /\ \A u \in CanonicalVex \ {v} :
                          getOpcodeIdx(<<"/","v","e","x","=">> \o u) # Ret(cur.idx)

\* /vex=none_66_0f3a resolved to 7, the index of /vex=66_0f3a
C20_Witness ==
    /\ pc = "resolved"
    /\ cur.opc = <<"/","v","e","x","=","n","o","n","e","_","6","6","_","0","f","3","a">>
    /\ cur.idx = 7
    /\ getOpcodeIdx(<<"/","v","e","x","=","6","6","_","0","f","3","a">>) = Ret(7)
====
